---- MODULE Spec2Model ----
(***************************************************************************)
(* 2NDMIND graph engine: geometry kernel (engine/math.ts), layout engine   *)
(* (engine/layout.ts), physics simulator (engine/physics.ts) and the part  *)
(* of the host view (GraphView) and store that drives them.                *)
(*                                                                         *)
(* Numbers.  The program computes in IEEE doubles.  The model computes in  *)
(* fixed point: a length, a coordinate or a velocity component v of the    *)
(* program is the integer v * Scale, rounded to nearest after every        *)
(* product and quotient.  Grid sizes, spacings and offsets are carried in  *)
(* the same unit.  Thresholds are compared on squared lengths, so they are *)
(* exact; a square root is taken only where the program divides by one.    *)
(***************************************************************************)
EXTENDS Integers, Sequences, FiniteSets, TLC

\* Units per pixel of the fixed-point representation.
Scale == 100

\* Number of stepPhysics calls explored.
MaxTicks == 2

\* Number of user gestures explored: pointer-downs, tool clicks, deletions.
MaxEvents == 2

---------------------------------------------------------------------------
(* Integer helpers of the fixed-point representation *)

Abs(v) == IF v < 0 THEN 0 - v ELSE v

Max2(a, b) == IF a >= b THEN a ELSE b

Min2(a, b) == IF a <= b THEN a ELSE b

\* a / b rounded to nearest, ties toward +infinity (b > 0)
RoundDiv(a, b) == a \div b + (IF 2 * (a % b) >= b THEN 1 ELSE 0)

\* a * b / c rounded to nearest, without forming a * b (c > 0)
MulDiv(a, b, c) == (a \div c) * b + RoundDiv((a % c) * b, c)

RECURSIVE SqrtSearch(_, _, _)
SqrtSearch(n, lo, hi) ==
    IF lo >= hi THEN lo
    ELSE LET mid == (lo + hi + 1) \div 2
         IN IF mid * mid <= n THEN SqrtSearch(n, mid, hi)
            ELSE SqrtSearch(n, lo, mid - 1)

\* floor of the square root of n, 0 <= n < 2^31
ISqrt(n) == SqrtSearch(n, 0, Min2(n, 46340))

\* Largest component whose square still fits a 32-bit sum of two squares.
SquareCap == 30000

\* x*x + y*y, saturated at 2 * SquareCap^2 once a component exceeds SquareCap
NormSq(x, y) ==
    IF Abs(x) > SquareCap \/ Abs(y) > SquareCap
    THEN 2 * SquareCap * SquareCap
    ELSE x * x + y * y

\* Math.sqrt(x*x + y*y); a long vector is measured at a coarser resolution
Hypot(x, y) ==
    LET m == Max2(Abs(x), Abs(y))
        k == m \div SquareCap + 1
    IN  IF k = 1 THEN ISqrt(x * x + y * y)
        ELSE k * ISqrt(RoundDiv(x, k) * RoundDiv(x, k) + RoundDiv(y, k) * RoundDiv(y, k))

---------------------------------------------------------------------------
(* Geometry kernel *)

Pos(x, y) == [x |-> x, y |-> y]

clamp(value, min, max) == Max2(min, Min2(max, value))

\* a snap that leaves the value as it is
snapToGrid_Identity(value, gridSize) == value

\* Math.round(value / gridSize) * gridSize; Math.round rounds ties up
snapToGrid(value, gridSize) == RoundDiv(value, gridSize) * gridSize

snapPosition(position, gridSize) ==
    Pos(snapToGrid(position.x, gridSize), snapToGrid(position.y, gridSize))

\* distanceSquared(a, b) > limit, limit in squared units
distanceSquaredExceeds(a, b, limit) == NormSq(a.x - b.x, a.y - b.y) > limit

createZeroVector == Pos(0, 0)

---------------------------------------------------------------------------
(* Physics constraints (types/core.ts).  maxOffset, gridSnap and            *)
(* repulsionRadius are lengths; spring and frameMagnet are in thousandths.  *)

DEFAULT_PHYSICS ==
    [maxOffset |-> 32 * Scale, enablePhysics |-> TRUE, gridSnap |-> 8 * Scale,
     repulsionRadius |-> 64 * Scale, spring |-> 100, repulsion |-> 100,
     frameMagnet |-> 50]

PRESET_STATIC ==
    [maxOffset |-> 0, enablePhysics |-> FALSE, gridSnap |-> 8 * Scale,
     repulsionRadius |-> 48 * Scale, spring |-> 50, repulsion |-> 40,
     frameMagnet |-> 100]

PRESET_TACTILE ==
    [maxOffset |-> 32 * Scale, enablePhysics |-> TRUE, gridSnap |-> 8 * Scale,
     repulsionRadius |-> 64 * Scale, spring |-> 120, repulsion |-> 120,
     frameMagnet |-> 120]

PRESET_STORM ==
    [maxOffset |-> 48 * Scale, enablePhysics |-> TRUE, gridSnap |-> 8 * Scale,
     repulsionRadius |-> 96 * Scale, spring |-> 160, repulsion |-> 220,
     frameMagnet |-> 180]

---------------------------------------------------------------------------
(* Physics simulator (engine/physics.ts).  A PhysicsState is a function    *)
(* from the ids that have an entry to [position, velocity, target].        *)

NewEntry(position, target) ==
    [position |-> position, velocity |-> createZeroVector, target |-> target]

SetEntry(state, id, entry) ==
    [n \in DOMAIN state \cup {id} |-> IF n = id THEN entry ELSE state[n]]

EmptyState == [n \in {} |-> NewEntry(createZeroVector, createZeroVector)]

RECURSIVE InitEntries(_, _, _, _)
InitEntries(state, nodes, i, gridSnap) ==
    IF i > Len(nodes) THEN state
    ELSE InitEntries(SetEntry(state, nodes[i].id,
                              NewEntry(snapPosition(nodes[i].position, gridSnap),
                                       snapPosition(nodes[i].position, gridSnap))),
                     nodes, i + 1, gridSnap)

initializePhysicsState(nodes, gridSnap) == InitEntries(EmptyState, nodes, 1, gridSnap)

\* a sync that stores the layout position as it comes
syncEntry_Unsnapped(existing, position, gridSnap) == [existing EXCEPT !.target = position]

\* a sync that also moves the node onto the layout position
syncEntry_Teleport(existing, position, gridSnap) ==
    [existing EXCEPT !.target = snapPosition(position, gridSnap),
                     !.position = snapPosition(position, gridSnap)]

\* the branch of syncPhysicsTargets for an id that has an entry
syncEntry(existing, position, gridSnap) ==
    [existing EXCEPT !.target = snapPosition(position, gridSnap)]

\* layout: a function from the ids of the layout to positions.  The entries
\* are visited one by one; no visit reads what another wrote.
syncPhysicsTargets(state, layout, gridSnap) ==
    [n \in DOMAIN state \cup DOMAIN layout |->
        IF n \notin DOMAIN layout THEN state[n]
        ELSE IF n \in DOMAIN state THEN syncEntry(state[n], layout[n], gridSnap)
        ELSE NewEntry(snapPosition(layout[n], gridSnap),
                      snapPosition(layout[n], gridSnap))]

ensureStateForNode(state, node, gridSnap) ==
    IF node.id \in DOMAIN state THEN state
    ELSE SetEntry(state, node.id,
                  NewEntry(snapPosition(node.position, gridSnap),
                           snapPosition(node.position, gridSnap)))

RECURSIVE EnsureAll(_, _, _, _)
EnsureAll(state, nodes, i, gridSnap) ==
    IF i > Len(nodes) THEN state
    ELSE EnsureAll(ensureStateForNode(state, nodes[i], gridSnap), nodes, i + 1, gridSnap)

NodeIdsOf(nodes) == {nodes[i].id : i \in 1..Len(nodes)}

\* dt = clamp(deltaMs, 0, 48) / 16.666, kept as the fraction DtNum / DtDen
DtDen == 16666

DtNum(deltaMs) == clamp(deltaMs, 0, 48) * 1000

TimesDt(v, deltaMs) == MulDiv(v, DtNum(deltaMs), DtDen)

\* frameCenters: frame id -> centre
FrameCenters(frames) ==
    [f \in {frames[i].id : i \in 1..Len(frames)} |->
        LET fr == CHOOSE g \in {frames[i] : i \in 1..Len(frames)} : g.id = f
        IN  Pos(fr.position.x + RoundDiv(fr.size.width, 2),
                fr.position.y + RoundDiv(fr.size.height, 2))]

\* spring term toward the target
SpringForce(physics, c) ==
    Pos(MulDiv(physics.target.x - physics.position.x, c.spring, 1000),
        MulDiv(physics.target.y - physics.position.y, c.spring, 1000))

\* frame magnet term, FRAME_FORCE_MULTIPLIER = 0.15
FrameForce(node, physics, c, centers) ==
    IF node.frameId \in DOMAIN centers
    THEN LET dx == centers[node.frameId].x - physics.position.x
             dy == centers[node.frameId].y - physics.position.y
         IN  Pos(MulDiv(MulDiv(dx, c.frameMagnet, 1000), 15, 100),
                 MulDiv(MulDiv(dy, c.frameMagnet, 1000), 15, 100))
    ELSE createZeroVector

\* repulsion on the node at p from the node at q
RepulsionFrom(p, q, c) ==
    LET dx == p.x - q.x
        dy == p.y - q.y
    IN  IF Abs(dx) >= c.repulsionRadius \/ Abs(dy) >= c.repulsionRadius
        THEN createZeroVector
        ELSE LET distSq == dx * dx + dy * dy
             IN  IF distSq > 0 /\ distSq < c.repulsionRadius * c.repulsionRadius
                 THEN LET dist == Max2(ISqrt(distSq), 1)
                          strength == RoundDiv(c.repulsion * Scale * Scale * Scale, distSq)
                      IN  Pos(MulDiv(strength, dx, dist), MulDiv(strength, dy, dist))
                 ELSE createZeroVector

RECURSIVE RepulsionSum(_, _, _, _, _)
RepulsionSum(state, nodes, i, j, c) ==
    IF j > Len(nodes) THEN createZeroVector
    ELSE LET rest == RepulsionSum(state, nodes, i, j + 1, c)
         IN  IF nodes[j].id = nodes[i].id THEN rest
             ELSE LET f == RepulsionFrom(state[nodes[i].id].position,
                                         state[nodes[j].id].position, c)
                  IN  Pos(f.x + rest.x, f.y + rest.y)

\* offset * (maxOffset / (offsetDistance || 1))
ScaleOffset(offset, maxOffset, offsetDistance) ==
    LET k == offsetDistance \div SquareCap + 1
        d == Max2(RoundDiv(offsetDistance, k), 1)
    IN  RoundDiv(RoundDiv(offset, k) * maxOffset, d)

\* a step that lacks the hard bound
ClampOffset_None(position, velocity, target, c) ==
    [position |-> position, velocity |-> velocity]

\* the hard bound: lines 166-175
ClampOffset(position, velocity, target, c) ==
    LET offsetX == position.x - target.x
        offsetY == position.y - target.y
    IN  IF NormSq(offsetX, offsetY) > c.maxOffset * c.maxOffset
        THEN LET offsetDistance == Hypot(offsetX, offsetY)
             IN  [position |-> Pos(target.x + ScaleOffset(offsetX, c.maxOffset, offsetDistance),
                                   target.y + ScaleOffset(offsetY, c.maxOffset, offsetDistance)),
                  velocity |-> Pos(MulDiv(velocity.x, 6, 10), MulDiv(velocity.y, 6, 10))]
        ELSE [position |-> position, velocity |-> velocity]

\* offsetDistance < gridSnap * 0.4
OffsetSettled(offsetSq, gridSnap) ==
    offsetSq <= gridSnap * gridSnap /\ 25 * offsetSq < 4 * gridSnap * gridSnap

\* velocityMagnitude < 0.08
VelocitySettled(velocitySq) ==
    velocitySq <= Scale * Scale /\ velocitySq * 10000 < 64 * Scale * Scale

\* velocityMagnitude > 0.02
VelocityMoving(velocitySq) ==
    velocitySq > Scale * Scale \/ velocitySq * 10000 > 4 * Scale * Scale

\* a locked or dragged node: lines 123-127
PinnedStep(physics, gridSnap) ==
    [physics EXCEPT !.position = snapPosition(physics.target, gridSnap),
                    !.velocity = createZeroVector]

\* a simulated node that comes to rest where it is, not on its target
SimulatedStep_RestInPlace(state, nodes, i, c, deltaMs, centers) ==
    LET node == nodes[i]
        physics == state[node.id]
        spring == SpringForce(physics, c)
        magnet == FrameForce(node, physics, c, centers)
        repel == RepulsionSum(state, nodes, i, 1, c)
        forceX == spring.x + magnet.x + repel.x
        forceY == spring.y + magnet.y + repel.y
        v1 == Pos(MulDiv(physics.velocity.x + TimesDt(forceX, deltaMs), 82, 100),
                  MulDiv(physics.velocity.y + TimesDt(forceY, deltaMs), 82, 100))
        p1 == Pos(physics.position.x + TimesDt(v1.x, deltaMs),
                  physics.position.y + TimesDt(v1.y, deltaMs))
        offsetSq == NormSq(p1.x - physics.target.x, p1.y - physics.target.y)
        bounded == ClampOffset(p1, v1, physics.target, c)
        velocitySq == NormSq(bounded.velocity.x, bounded.velocity.y)
    IN  IF OffsetSettled(offsetSq, c.gridSnap) /\ VelocitySettled(velocitySq)
        THEN [entry |-> [physics EXCEPT !.position = bounded.position,
                                        !.velocity = createZeroVector],
              moving |-> FALSE]
        ELSE [entry |-> [physics EXCEPT !.position = bounded.position,
                                        !.velocity = bounded.velocity],
              moving |-> VelocityMoving(velocitySq)
                         \/ distanceSquaredExceeds(bounded.position, physics.target,
                                                   4 * Scale * Scale)]

\* a simulated node: lines 129-192.  Gives the entry and its movement flag.
SimulatedStep(state, nodes, i, c, deltaMs, centers) ==
    LET node == nodes[i]
        physics == state[node.id]
        spring == SpringForce(physics, c)
        magnet == FrameForce(node, physics, c, centers)
        repel == RepulsionSum(state, nodes, i, 1, c)
        forceX == spring.x + magnet.x + repel.x
        forceY == spring.y + magnet.y + repel.y
        v1 == Pos(MulDiv(physics.velocity.x + TimesDt(forceX, deltaMs), 82, 100),
                  MulDiv(physics.velocity.y + TimesDt(forceY, deltaMs), 82, 100))
        p1 == Pos(physics.position.x + TimesDt(v1.x, deltaMs),
                  physics.position.y + TimesDt(v1.y, deltaMs))
        offsetSq == NormSq(p1.x - physics.target.x, p1.y - physics.target.y)
        bounded == ClampOffset(p1, v1, physics.target, c)
        velocitySq == NormSq(bounded.velocity.x, bounded.velocity.y)
    IN  IF OffsetSettled(offsetSq, c.gridSnap) /\ VelocitySettled(velocitySq)
        THEN [entry |-> [physics EXCEPT !.position = snapPosition(physics.target, c.gridSnap),
                                        !.velocity = createZeroVector],
              moving |-> FALSE]
        ELSE [entry |-> [physics EXCEPT !.position = bounded.position,
                                        !.velocity = bounded.velocity],
              moving |-> VelocityMoving(velocitySq)
                         \/ distanceSquaredExceeds(bounded.position, physics.target,
                                                   4 * Scale * Scale)]

RECURSIVE StepEntries(_, _, _, _, _, _, _, _)
StepEntries(state, hasMovement, nodes, i, c, deltaMs, draggingIds, centers) ==
    IF i > Len(nodes) THEN [state |-> state, hasMovement |-> hasMovement]
    ELSE IF nodes[i].locked \/ nodes[i].id \in draggingIds
    THEN StepEntries([state EXCEPT ![nodes[i].id] = PinnedStep(@, c.gridSnap)],
                     hasMovement, nodes, i + 1, c, deltaMs, draggingIds, centers)
    ELSE LET r == SimulatedStep(state, nodes, i, c, deltaMs, centers)
         IN  StepEntries([state EXCEPT ![nodes[i].id] = r.entry],
                         hasMovement \/ r.moving, nodes, i + 1, c, deltaMs,
                         draggingIds, centers)

\* physics disabled: lines 105-111, for one entry
FreezeEntry(entry, gridSnap) ==
    [entry EXCEPT !.position = snapPosition(entry.target, gridSnap),
                  !.velocity = createZeroVector]

\* lines 118-120
ResnapTargets(state, nodes, gridSnap) ==
    [n \in DOMAIN state |->
        IF n \in NodeIdsOf(nodes)
        THEN [state[n] EXCEPT !.target = snapPosition(@, gridSnap)]
        ELSE state[n]]

\* stepPhysics without the return of line 84
stepPhysics_NoEmptyGuard(state, nodes, c, deltaMs, draggingIds, frames) ==
    LET ensured == EnsureAll(state, nodes, 1, c.gridSnap)
    IN  IF ~c.enablePhysics
        THEN [state |-> [n \in DOMAIN ensured |-> FreezeEntry(ensured[n], c.gridSnap)],
              hasMovement |-> FALSE]
        ELSE StepEntries(ResnapTargets(ensured, nodes, c.gridSnap), FALSE, nodes, 1,
                         c, deltaMs, draggingIds, FrameCenters(frames))

\* Gives [state, hasMovement]: the state after the call and the value returned.
stepPhysics(state, nodes, c, deltaMs, draggingIds, frames) ==
    IF Len(nodes) = 0 THEN [state |-> state, hasMovement |-> FALSE]
    ELSE LET ensured == EnsureAll(state, nodes, 1, c.gridSnap)
         IN  IF ~c.enablePhysics
             THEN [state |-> [n \in DOMAIN ensured |-> FreezeEntry(ensured[n], c.gridSnap)],
                   hasMovement |-> FALSE]
             ELSE StepEntries(ResnapTargets(ensured, nodes, c.gridSnap), FALSE, nodes, 1,
                              c, deltaMs, draggingIds, FrameCenters(frames))

---------------------------------------------------------------------------
(* Layout engine (engine/layout.ts).                                       *)
(* A node is [id, position, tags, kind, createdAt, locked, frameId]; an    *)
(* edge is [sourceId, targetId, type].  A JavaScript Map is a sequence of  *)
(* [key, value] pairs with distinct keys, in insertion order.              *)

MapHas(m, k) == \E i \in 1..Len(m) : m[i].key = k

MapGet(m, k) == m[CHOOSE i \in 1..Len(m) : m[i].key = k].value

MapSet(m, k, v) ==
    IF MapHas(m, k)
    THEN [i \in 1..Len(m) |-> IF m[i].key = k THEN [key |-> k, value |-> v] ELSE m[i]]
    ELSE Append(m, [key |-> k, value |-> v])

MapKeys(m) == {m[i].key : i \in 1..Len(m)}

EdgeTypes ==
    {"causes", "supports", "contrasts", "extends", "part_of", "links", "depends_on",
     "relates"}

\* a set of directional types that also holds the generic link
DIRECTIONAL_EDGE_TYPES_WithLinks ==
    {"causes", "supports", "extends", "part_of", "depends_on", "links"}

DIRECTIONAL_EDGE_TYPES == {"causes", "supports", "extends", "part_of", "depends_on"}

ORDERED_NODE_KINDS == <<"note", "idea", "task", "tag">>

DEFAULT_LAYOUT_OPTIONS ==
    [gridSize |-> 8, columnSpacing |-> 240, rowSpacing |-> 160, margin |-> 120,
     maxPerColumn |-> 8]

\* the number a sort comparator reads from a node
SortKey(node, by) == IF by = "createdAt" THEN node.createdAt ELSE node.position.y

\* Array.prototype.sort with comparator key(a) - key(b): stable, ascending
RECURSIVE InsertByKey(_, _, _)
InsertByKey(sorted, item, by) ==
    IF Len(sorted) = 0 THEN <<item>>
    ELSE IF SortKey(sorted[Len(sorted)], by) <= SortKey(item, by) THEN Append(sorted, item)
    ELSE Append(InsertByKey(SubSeq(sorted, 1, Len(sorted) - 1), item, by),
                sorted[Len(sorted)])

RECURSIVE SortByKey(_, _)
SortByKey(items, by) ==
    IF Len(items) = 0 THEN <<>>
    ELSE InsertByKey(SortByKey(SubSeq(items, 1, Len(items) - 1), by),
                     items[Len(items)], by)

\* indegree.get(id) || 0
IndegreeOf(indegree, id) == IF id \in DOMAIN indegree THEN indegree[id] ELSE 0

SetKey(f, k, v) == [n \in DOMAIN f \cup {k} |-> IF n = k THEN v ELSE f[n]]

\* lines 58-65: one edge added to indegree and adjacency
RECURSIVE CountEdges(_, _, _)
CountEdges(graph, edges, i) ==
    IF i > Len(edges) THEN graph
    ELSE IF edges[i].type \notin DIRECTIONAL_EDGE_TYPES THEN CountEdges(graph, edges, i + 1)
    ELSE LET e == edges[i]
             adjacency == IF e.sourceId \in DOMAIN graph.adjacency
                          THEN [graph.adjacency EXCEPT ![e.sourceId] = Append(@, e.targetId)]
                          ELSE graph.adjacency
             indegree == SetKey(graph.indegree, e.targetId,
                                IndegreeOf(graph.indegree, e.targetId) + 1)
         IN  CountEdges([adjacency |-> adjacency, indegree |-> indegree], edges, i + 1)

\* lines 69-73: the zero-indegree ids, in the Map's insertion order.  An id
\* that is not a node enters indegree with a count of at least 1.
RECURSIVE SeedQueue(_, _, _)
SeedQueue(indegree, nodes, i) ==
    IF i > Len(nodes) THEN <<>>
    ELSE IF indegree[nodes[i].id] = 0
    THEN <<[id |-> nodes[i].id, layer |-> 0]>> \o SeedQueue(indegree, nodes, i + 1)
    ELSE SeedQueue(indegree, nodes, i + 1)

\* lines 88-98: the successors of the item taken from the queue
RECURSIVE RelaxNeighbors(_, _, _, _)
RelaxNeighbors(st, neighbors, j, nextLayer) ==
    IF j > Len(neighbors) THEN st
    ELSE LET neighborId == neighbors[j]
             nextIndegree == IndegreeOf(st.indegree, neighborId) - 1
             indegree == SetKey(st.indegree, neighborId, nextIndegree)
         IN  IF nextIndegree <= 0
             THEN RelaxNeighbors([st EXCEPT !.indegree = indegree,
                                            !.queue = Append(@, [id |-> neighborId,
                                                                 layer |-> nextLayer])],
                                 neighbors, j + 1, nextLayer)
             ELSE LET existingNeighborLayer ==
                          IF neighborId \in DOMAIN st.layers THEN st.layers[neighborId] ELSE 0
                  IN  RelaxNeighbors([st EXCEPT !.indegree = indegree,
                                                !.layers = SetKey(@, neighborId,
                                                    Max2(existingNeighborLayer, nextLayer))],
                                     neighbors, j + 1, nextLayer)

\* lines 77-99: the queue loop
RECURSIVE DrainQueue(_, _)
DrainQueue(st, adjacency) ==
    IF Len(st.queue) = 0 THEN st.layers
    ELSE LET current == Head(st.queue)
             rest == [st EXCEPT !.queue = Tail(@)]
         IN  IF current.id \in DOMAIN st.layers /\ st.layers[current.id] >= current.layer
             THEN DrainQueue(rest, adjacency)
             ELSE LET neighbors == IF current.id \in DOMAIN adjacency
                                   THEN adjacency[current.id] ELSE <<>>
                  IN  DrainQueue(RelaxNeighbors(
                                     [rest EXCEPT !.layers = SetKey(@, current.id, current.layer)],
                                     neighbors, 1, current.layer + 1),
                                 adjacency)

\* a buildLayers whose last loop gives the nodes without a layer the layer 1
buildLayers_DefaultOne(nodes, edges) ==
    LET ids == NodeIdsOf(nodes)
        graph == CountEdges([adjacency |-> [n \in ids |-> <<>>],
                             indegree |-> [n \in ids |-> 0]], edges, 1)
        layers == DrainQueue([queue |-> SeedQueue(graph.indegree, nodes, 1),
                              layers |-> [n \in {} |-> 0],
                              indegree |-> graph.indegree], graph.adjacency)
    IN  [n \in DOMAIN layers \cup ids |-> IF n \in DOMAIN layers THEN layers[n] ELSE 1]

\* Map<NodeId, number> as a function from the ids that have a layer
buildLayers(nodes, edges) ==
    LET ids == NodeIdsOf(nodes)
        graph == CountEdges([adjacency |-> [n \in ids |-> <<>>],
                             indegree |-> [n \in ids |-> 0]], edges, 1)
        layers == DrainQueue([queue |-> SeedQueue(graph.indegree, nodes, 1),
                              layers |-> [n \in {} |-> 0],
                              indegree |-> graph.indegree], graph.adjacency)
    IN  [n \in DOMAIN layers \cup ids |-> IF n \in DOMAIN layers THEN layers[n] ELSE 0]

EmptyLayout == [positions |-> [n \in {} |-> Pos(0, 0)], groups |-> <<>>,
                layers |-> [n \in {} |-> 0]]

\* one column: rows by ascending position.y, ids appended to the group of key
RECURSIVE PlaceColumn(_, _, _, _, _, _)
PlaceColumn(acc, sortedNodes, index, x, key, options) ==
    IF index > Len(sortedNodes) THEN acc
    ELSE LET node == sortedNodes[index]
             y == snapToGrid(options.margin + (index - 1) * options.rowSpacing,
                             options.gridSize)
             existing == IF MapHas(acc.groups, key) THEN MapGet(acc.groups, key) ELSE <<>>
         IN  PlaceColumn([acc EXCEPT !.positions = SetKey(@, node.id, Pos(x, y)),
                                     !.groups = MapSet(@, key, Append(existing, node.id))],
                         sortedNodes, index + 1, x, key, options)

\* lines 119-132; groupedNodes is a sequence of [key, value] pairs
RECURSIVE AssignColumns(_, _, _, _)
AssignColumns(acc, groupedNodes, c, options) ==
    IF c > Len(groupedNodes) THEN acc
    ELSE LET x == snapToGrid(options.margin + (c - 1) * options.columnSpacing,
                             options.gridSize)
             sortedGroup == SortByKey(groupedNodes[c].value, "position.y")
             placed == PlaceColumn(acc, sortedGroup, 1, x, groupedNodes[c].key, options)
             layers == [n \in DOMAIN placed.layers \cup NodeIdsOf(sortedGroup) |->
                           IF n \in NodeIdsOf(sortedGroup) THEN c - 1 ELSE placed.layers[n]]
         IN  AssignColumns([placed EXCEPT !.layers = layers], groupedNodes, c + 1, options)

assignPositionsFromGroups(groupedNodes, options) ==
    AssignColumns(EmptyLayout, groupedNodes, 1, options)

\* lines 147-157: the layers present, ascending, each with its nodes in input order
SortedLayers(nodes, layers) ==
    LET present == {layers[nodes[i].id] : i \in 1..Len(nodes)}
        RECURSIVE Ascending(_)
        Ascending(S) ==
            IF S = {} THEN <<>>
            ELSE LET least == CHOOSE v \in S : \A w \in S : v <= w
                     InLayer(node) == layers[node.id] = least
                 IN  <<[key |-> least, value |-> SelectSeq(nodes, InLayer)]>>
                         \o Ascending(S \ {least})
    IN  Ascending(present)

\* lines 162-174
RECURSIVE FlowColumns(_, _, _, _)
FlowColumns(acc, sortedLayers, c, options) ==
    IF c > Len(sortedLayers) THEN acc
    ELSE LET x == snapToGrid(options.margin + (c - 1) * options.columnSpacing,
                             options.gridSize)
             sortedNodes == SortByKey(sortedLayers[c].value, "position.y")
         IN  FlowColumns(PlaceColumn(acc, sortedNodes, 1, x,
                                     [prefix |-> "layer", index |-> sortedLayers[c].key],
                                     options),
                         sortedLayers, c + 1, options)

\* a flow layout that takes the layers in descending order
computeFlowGridLayout_Descending(nodes, edges, options) ==
    IF Len(nodes) = 0 THEN EmptyLayout
    ELSE LET layers == buildLayers(nodes, edges)
             ascending == SortedLayers(nodes, layers)
             descending == [c \in 1..Len(ascending) |-> ascending[Len(ascending) + 1 - c]]
             placed == FlowColumns(EmptyLayout, descending, 1, options)
         IN  [placed EXCEPT !.layers = layers]

computeFlowGridLayout(nodes, edges, options) ==
    IF Len(nodes) = 0 THEN EmptyLayout
    ELSE LET layers == buildLayers(nodes, edges)
             placed == FlowColumns(EmptyLayout, SortedLayers(nodes, layers), 1, options)
         IN  [placed EXCEPT !.layers = layers]

\* String.prototype.localeCompare on the tag names the model draws from:
\* the names in ascending order
TagCollation == <<"alpha", "untagged", "x">>

TagRank(tag) == CHOOSE i \in 1..Len(TagCollation) : TagCollation[i] = tag

\* entries.sort((a, b) => a[0].localeCompare(b[0])): the keys are distinct
RECURSIVE SortEntriesByTag(_)
SortEntriesByTag(entries) ==
    IF Len(entries) = 0 THEN <<>>
    ELSE LET least == CHOOSE i \in 1..Len(entries) :
                          \A j \in 1..Len(entries) :
                              TagRank(entries[i].key) <= TagRank(entries[j].key)
         IN  <<entries[least]>>
                 \o SortEntriesByTag([j \in 1..(Len(entries) - 1) |->
                                         IF j < least THEN entries[j] ELSE entries[j + 1]])

\* lines 186-197 and 216-221: nodes appended to the Map entry of their key
RECURSIVE GroupNodes(_, _, _, _)
GroupNodes(groups, nodes, i, by) ==
    IF i > Len(nodes) THEN groups
    ELSE LET node == nodes[i]
         IN  IF by = "tags" /\ Len(node.tags) = 0 THEN GroupNodes(groups, nodes, i + 1, by)
             ELSE LET key == IF by = "tags" THEN node.tags[1] ELSE node.kind
                      existing == IF MapHas(groups, key) THEN MapGet(groups, key) ELSE <<>>
                  IN  GroupNodes(MapSet(groups, key, Append(existing, node)), nodes, i + 1, by)

HasNoTags(node) == Len(node.tags) = 0

\* a layoutByTags that puts the nodes without tags first
layoutByTags_UntaggedFirst(nodes, options) ==
    LET tagGroups == GroupNodes(<<>>, nodes, 1, "tags")
        untagged == SelectSeq(nodes, HasNoTags)
        sorted == SortEntriesByTag(tagGroups)
        entries == IF Len(untagged) > 0
                   THEN <<[key |-> "untagged", value |-> untagged]>> \o sorted
                   ELSE sorted
    IN  assignPositionsFromGroups(entries, options)

layoutByTags(nodes, options) ==
    LET tagGroups == GroupNodes(<<>>, nodes, 1, "tags")
        untagged == SelectSeq(nodes, HasNoTags)
        sorted == SortEntriesByTag(tagGroups)
        entries == IF Len(untagged) > 0
                   THEN Append(sorted, [key |-> "untagged", value |-> untagged])
                   ELSE sorted
    IN  assignPositionsFromGroups(entries, options)

\* a layoutByTypes that keeps a column for each of the four kinds
layoutByTypes_AllKinds(nodes, options) ==
    LET typeGroups == GroupNodes(<<>>, nodes, 1, "kind")
        entries == [k \in 1..Len(ORDERED_NODE_KINDS) |->
                       [key |-> ORDERED_NODE_KINDS[k],
                        value |-> IF MapHas(typeGroups, ORDERED_NODE_KINDS[k])
                                  THEN MapGet(typeGroups, ORDERED_NODE_KINDS[k])
                                  ELSE <<>>]]
    IN  assignPositionsFromGroups(entries, options)

layoutByTypes(nodes, options) ==
    LET typeGroups == GroupNodes(<<>>, nodes, 1, "kind")
        Present(kind) == MapHas(typeGroups, kind)
        kinds == SelectSeq(ORDERED_NODE_KINDS, Present)
        entries == [k \in 1..Len(kinds) |->
                       [key |-> kinds[k], value |-> MapGet(typeGroups, kinds[k])]]
    IN  assignPositionsFromGroups(entries, options)

\* lines 245-256
RECURSIVE PackColumns(_, _, _, _)
PackColumns(acc, sorted, i, options) ==
    IF i > Len(sorted) THEN acc
    ELSE LET index == i - 1
             column == index \div options.maxPerColumn
             row == index % options.maxPerColumn
             x == snapToGrid(options.margin + column * options.columnSpacing, options.gridSize)
             y == snapToGrid(options.margin + row * options.rowSpacing, options.gridSize)
             key == [prefix |-> "time", index |-> column]
             bucket == IF MapHas(acc.groups, key) THEN MapGet(acc.groups, key) ELSE <<>>
         IN  PackColumns([positions |-> SetKey(acc.positions, sorted[i].id, Pos(x, y)),
                          groups |-> MapSet(acc.groups, key, Append(bucket, sorted[i].id)),
                          layers |-> SetKey(acc.layers, sorted[i].id, column)],
                         sorted, i + 1, options)

\* a layoutByTime that packs the nodes in input order
layoutByTime_InputOrder(nodes, options) ==
    IF Len(nodes) = 0 THEN EmptyLayout
    ELSE PackColumns(EmptyLayout, nodes, 1, options)

layoutByTime(nodes, options) ==
    IF Len(nodes) = 0 THEN EmptyLayout
    ELSE PackColumns(EmptyLayout, SortByKey(nodes, "createdAt"), 1, options)

\* options: a record holding any of the five option fields
ensureOptions(options) ==
    [f \in DOMAIN DEFAULT_LAYOUT_OPTIONS |->
        IF f \in DOMAIN options THEN options[f] ELSE DEFAULT_LAYOUT_OPTIONS[f]]

\* a computeLayout whose switch has no default branch to the flow layout
computeLayout_NoDefault(mode, nodes, edges, options) ==
    LET resolvedOptions == ensureOptions(options)
    IN  CASE mode = "byTags" -> layoutByTags(nodes, resolvedOptions)
          [] mode = "byTypes" -> layoutByTypes(nodes, resolvedOptions)
          [] mode = "byTime" -> layoutByTime(nodes, resolvedOptions)
          [] mode \in {"byCausality", "flowGrid"} ->
                 computeFlowGridLayout(nodes, edges, resolvedOptions)
          [] OTHER -> EmptyLayout

computeLayout(mode, nodes, edges, options) ==
    LET resolvedOptions == ensureOptions(options)
    IN  CASE mode = "byTags" -> layoutByTags(nodes, resolvedOptions)
          [] mode = "byTypes" -> layoutByTypes(nodes, resolvedOptions)
          [] mode = "byTime" -> layoutByTime(nodes, resolvedOptions)
          [] OTHER -> computeFlowGridLayout(nodes, edges, resolvedOptions)

---------------------------------------------------------------------------
(* The host: the store (nodes, edges, physicsConstraints) and GraphView's  *)
(* refs, effects, pointer handlers and animation callback.                 *)

VARIABLES
    nodes,               \* store.nodes: id -> [position, locked]
    edges,               \* store.edges, in insertion order
    physicsConstraints,  \* store.physicsConstraints
    layoutMode,          \* GraphView's layoutMode state
    layout,              \* the computeLayout result of the last render
    visibleNodes,        \* visibleNodesRef.current
    physicsState,        \* physicsStateRef.current
    draggingIds,         \* draggingIdsRef.current
    hasMovement,         \* the value the last stepPhysics call returned
    pc,                  \* "idle", or the stage of a pending re-render
    dragPoint,           \* dragged id -> the point of its last pointer move
    steppedIds,          \* the ids some stepPhysics call had in its node list
    ticks,               \* stepPhysics calls made
    events               \* user gestures made

VARIABLES
    lyMode, lyNodes, lyEdges, lyOptions,  \* the arguments of a computeLayout call
    lyResult,                             \* what the call returned
    lyDone                                \* whether the call has returned

hostVars == <<nodes, edges, physicsConstraints, layoutMode, layout, visibleNodes,
              physicsState, draggingIds, hasMovement, pc, dragPoint, steppedIds, ticks,
              events>>

layoutVars == <<lyMode, lyNodes, lyEdges, lyOptions, lyResult, lyDone>>

VARIABLES
    simBefore,       \* the simulation state passed to the last engine call
    simState,        \* the simulation state an engine call works on
    simNodes,        \* the node list of a stepPhysics call
    simConstraints,  \* the constraints of a call
    simLayout,       \* the layout map of a syncPhysicsTargets call
    simReturned,     \* what the last stepPhysics call returned, FALSE before it
    simCalls         \* engine calls made

simVars == <<simBefore, simState, simNodes, simConstraints, simLayout, simReturned, simCalls>>

VARIABLES
    clock,           \* milliseconds since the auto-save was set up
    saveTimeout,     \* the timer handle createAutoSave keeps: {} is null
    pendingTimers,   \* the deadlines of the timers that are set and not cleared
    subscribed,      \* the store listener of usePersistence is subscribed
    storeChanges,    \* store changes made
    savedChanges,    \* store changes the last save() has read
    saves,           \* calls of save()
    unsavedSince     \* the time of the oldest change no save() has read, or {}

persistVars == <<clock, saveTimeout, pendingTimers, subscribed, storeChanges,
                 savedChanges, saves, unsavedSince>>

vars == <<hostVars, layoutVars, simVars, persistVars>>

\* The nodes of the store, in insertion order, and what never changes of them
NodeOrder == <<"a", "b">>

NodeTags == [a |-> <<"x">>, b |-> <<>>]

NodeKind == [a |-> "note", b |-> "idea"]

NodeCreatedAt == [a |-> 1, b |-> 2]

NodeFrameId == [a |-> "f", b |-> "none"]

\* store.frames
Frames == <<[id |-> "f", position |-> Pos(100 * Scale, 100 * Scale),
             size |-> [width |-> 200 * Scale, height |-> 200 * Scale]]>>

\* createNode takes the position it is given, or draws an integer one; these
\* are the positions the model starts from
InitialPositions == [a |-> Pos(203 * Scale, 350 * Scale), b |-> Pos(180 * Scale, 150 * Scale)]

\* the points a pointer move reports (getLocalPosition), on and off the grid
DragPoints == {Pos(150 * Scale, 150 * Scale), Pos(416 * Scale, 160 * Scale)}

\* the elapsed times the animation callback sees
DeltaValues == {16}

LayoutModes == {"flowGrid", "byTags", "byTypes", "byCausality", "byTime"}

\* the modes the Reframe tool is clicked with
HostModes == {"flowGrid", "byTime"}

NodeRecord(id) ==
    [id |-> id, position |-> nodes[id].position, locked |-> nodes[id].locked,
     tags |-> NodeTags[id], kind |-> NodeKind[id], createdAt |-> NodeCreatedAt[id],
     frameId |-> NodeFrameId[id]]

\* Array.from(state.nodes.values()) filtered; the filters stay at their defaults
InStore(id) == id \in DOMAIN nodes

FilteredNodes ==
    LET ids == SelectSeq(NodeOrder, InStore)
    IN  [i \in 1..Len(ids) |-> NodeRecord(ids[i])]

EndpointsVisible(edge) ==
    edge.sourceId \in NodeIdsOf(FilteredNodes) /\ edge.targetId \in NodeIdsOf(FilteredNodes)

FilteredEdges == SelectSeq(edges, EndpointsVisible)

HostLayoutOptions ==
    [gridSize |-> physicsConstraints.gridSnap, columnSpacing |-> 260 * Scale,
     rowSpacing |-> 180 * Scale, margin |-> 140 * Scale]

HostInit ==
    /\ \E lockedB \in BOOLEAN :
           nodes = [a |-> [position |-> InitialPositions.a, locked |-> FALSE],
                    b |-> [position |-> InitialPositions.b, locked |-> lockedB]]
    /\ edges = <<[sourceId |-> "a", targetId |-> "b", type |-> "causes"]>>
    /\ physicsConstraints = PRESET_TACTILE
    /\ layoutMode = "flowGrid"
    /\ layout = EmptyLayout
    /\ visibleNodes = <<>>
    /\ physicsState = EmptyState
    /\ draggingIds = {}
    /\ hasMovement = FALSE
    /\ pc = "render"
    /\ dragPoint = [n \in {} |-> Pos(0, 0)]
    /\ steppedIds = {}
    /\ ticks = 0
    /\ events = 0

\* GraphView renders: the memoised layout is recomputed (lines 507-514) and the
\* effects of lines 525-535 store the new snapshots in their refs
Render ==
    /\ pc = "render"
    /\ layout' = computeLayout(layoutMode, FilteredNodes, FilteredEdges, HostLayoutOptions)
    /\ visibleNodes' = FilteredNodes
    /\ pc' = "seed"
    /\ UNCHANGED <<nodes, edges, physicsConstraints, layoutMode, physicsState,
                   draggingIds, hasMovement, dragPoint, ticks, events, steppedIds>>

RECURSIVE SeedEntries(_, _, _, _, _)
SeedEntries(state, filteredNodes, i, positions, gridSnap) ==
    IF i > Len(filteredNodes) THEN state
    ELSE LET node == filteredNodes[i]
             target == IF node.id \in DOMAIN positions THEN positions[node.id]
                       ELSE node.position
         IN  SeedEntries(IF node.id \in DOMAIN state THEN state
                         ELSE SetEntry(state, node.id,
                                       NewEntry(snapPosition(node.position, gridSnap),
                                                snapPosition(target, gridSnap))),
                         filteredNodes, i + 1, positions, gridSnap)

\* the state-seeding effect, lines 566-577
SeedEffect ==
    /\ pc = "seed"
    /\ physicsState' = SeedEntries(physicsState, visibleNodes, 1, layout.positions,
                                   physicsConstraints.gridSnap)
    /\ pc' = "sync"
    /\ UNCHANGED <<nodes, edges, physicsConstraints, layoutMode, layout, visibleNodes,
                   draggingIds, hasMovement, dragPoint, ticks, events, steppedIds>>

\* the syncPhysicsTargets effect, lines 579-585
SyncEffect ==
    /\ pc = "sync"
    /\ physicsState' = syncPhysicsTargets(physicsState, layout.positions,
                                          physicsConstraints.gridSnap)
    /\ pc' = "idle"
    /\ UNCHANGED <<nodes, edges, physicsConstraints, layoutMode, layout, visibleNodes,
                   draggingIds, hasMovement, dragPoint, ticks, events, steppedIds>>

\* stepAnimation, lines 994-1015
StepAnimation(deltaMs) ==
    /\ pc = "idle"
    /\ ticks < MaxTicks
    /\ Len(visibleNodes) > 0
    /\ LET r == stepPhysics(physicsState, visibleNodes, physicsConstraints, deltaMs,
                            draggingIds, Frames)
       IN  /\ physicsState' = r.state
           /\ hasMovement' = r.hasMovement
    /\ ticks' = ticks + 1
    /\ steppedIds' = steppedIds \cup NodeIdsOf(visibleNodes)
    /\ UNCHANGED <<nodes, edges, physicsConstraints, layoutMode, layout, visibleNodes,
                   draggingIds, pc, dragPoint, events>>

\* handleNodePointerDown with a tool other than CONNECT, lines 704-710; the
\* selection it changes re-renders the view
PointerDown(n) ==
    /\ pc = "idle"
    /\ n \in NodeIdsOf(visibleNodes)
    /\ n \notin draggingIds
    /\ draggingIds' = draggingIds \cup {n}
    /\ pc' = "render"
    /\ events < MaxEvents
    /\ events' = events + 1
    /\ UNCHANGED <<nodes, edges, physicsConstraints, layoutMode, layout, visibleNodes,
                   physicsState, hasMovement, dragPoint, ticks, steppedIds>>

\* handleNodePointerMove, lines 731-741
PointerMove(n, point) ==
    /\ pc = "idle"
    /\ n \in NodeIdsOf(visibleNodes)
    /\ n \in draggingIds
    /\ physicsState' = IF n \in DOMAIN physicsState
                       THEN [physicsState EXCEPT ![n].position = point, ![n].target = point]
                       ELSE physicsState
    /\ dragPoint' = SetKey(dragPoint, n, point)
    /\ UNCHANGED <<nodes, edges, physicsConstraints, layoutMode, layout, visibleNodes,
                   draggingIds, hasMovement, pc, ticks, events, steppedIds>>

\* updateNode(id, {position}) of the store
updateNodePosition(storeNodes, id, position) ==
    IF id \in DOMAIN storeNodes THEN [storeNodes EXCEPT ![id].position = position]
    ELSE storeNodes

\* handleNodePointerUp, lines 715-729.  The entry's position, its target and the
\* store's position are one object there; the model keeps their values only.
PointerUp(n) ==
    /\ pc = "idle"
    /\ n \in NodeIdsOf(visibleNodes)
    /\ n \in draggingIds
    /\ IF n \in DOMAIN physicsState
       THEN LET snapped == snapPosition(physicsState[n].position,
                                        physicsConstraints.gridSnap)
            IN  /\ physicsState' = [physicsState EXCEPT ![n].position = snapped,
                                                        ![n].target = snapped]
                /\ nodes' = updateNodePosition(nodes, n, snapped)
       ELSE UNCHANGED <<physicsState, nodes>>
    /\ draggingIds' = draggingIds \ {n}
    /\ dragPoint' = [m \in DOMAIN dragPoint \ {n} |-> dragPoint[m]]
    /\ pc' = "render"
    /\ UNCHANGED <<edges, physicsConstraints, layoutMode, layout, visibleNodes,
                   hasMovement, ticks, events, steppedIds>>

\* handleNodePointerOver: the hover state changes and the view re-renders
PointerOver ==
    /\ pc = "idle"
    /\ Len(visibleNodes) > 0
    /\ pc' = "render"
    /\ UNCHANGED <<nodes, edges, physicsConstraints, layoutMode, layout, visibleNodes,
                   physicsState, draggingIds, hasMovement, dragPoint, ticks, events, steppedIds>>

\* handleFreeze and handleUnfreeze
SetEnablePhysics(enabled) ==
    /\ pc = "idle"
    /\ physicsConstraints.enablePhysics # enabled
    /\ physicsConstraints' = [physicsConstraints EXCEPT !.enablePhysics = enabled]
    /\ pc' = "render"
    /\ events < MaxEvents
    /\ events' = events + 1
    /\ UNCHANGED <<nodes, edges, layoutMode, layout, visibleNodes, physicsState,
                   draggingIds, hasMovement, dragPoint, ticks, steppedIds>>

\* handleReframe
Reframe(mode) ==
    /\ pc = "idle"
    /\ mode # layoutMode
    /\ layoutMode' = mode
    /\ pc' = "render"
    /\ events < MaxEvents
    /\ events' = events + 1
    /\ UNCHANGED <<nodes, edges, physicsConstraints, layout, visibleNodes, physicsState,
                   draggingIds, hasMovement, dragPoint, ticks, steppedIds>>

EdgeAvoids(id, edge) == edge.sourceId # id /\ edge.targetId # id

\* deleteNode of the store
DeleteNode(n) ==
    /\ pc = "idle"
    /\ n \in DOMAIN nodes
    /\ nodes' = [m \in DOMAIN nodes \ {n} |-> nodes[m]]
    /\ edges' = LET Keeps(edge) == EdgeAvoids(n, edge) IN SelectSeq(edges, Keeps)
    /\ pc' = "render"
    /\ events < MaxEvents
    /\ events' = events + 1
    /\ UNCHANGED <<physicsConstraints, layoutMode, layout, visibleNodes, physicsState,
                   draggingIds, hasMovement, dragPoint, ticks, steppedIds>>

HostNext ==
    \/ Render
    \/ SeedEffect
    \/ SyncEffect
    \/ \E deltaMs \in DeltaValues : StepAnimation(deltaMs)
    \/ \E n \in {"a", "b"} : PointerDown(n)
    \/ \E n \in {"a", "b"}, point \in DragPoints : PointerMove(n, point)
    \/ \E n \in {"a", "b"} : PointerUp(n)
    \/ PointerOver
    \/ \E enabled \in BOOLEAN : SetEnablePhysics(enabled)
    \/ \E mode \in HostModes : Reframe(mode)
    \/ \E n \in {"a", "b"} : DeleteNode(n)

LayoutIdle ==
    /\ lyMode = "flowGrid"
    /\ lyNodes = <<>>
    /\ lyEdges = <<>>
    /\ lyOptions = [gridSize |-> 8]
    /\ lyResult = EmptyLayout
    /\ lyDone = FALSE

SimIdle ==
    /\ simBefore = EmptyState
    /\ simState = EmptyState
    /\ simNodes = <<>>
    /\ simConstraints = DEFAULT_PHYSICS
    /\ simLayout = [n \in {} |-> Pos(0, 0)]
    /\ simReturned = FALSE
    /\ simCalls = 0

\* usePersistence has run its effect: the auto-save is created, the listener
\* is subscribed, no timer is set
PersistIdle ==
    /\ clock = 0
    /\ saveTimeout = {}
    /\ pendingTimers = {}
    /\ subscribed = TRUE
    /\ storeChanges = 0
    /\ savedChanges = 0
    /\ saves = 0
    /\ unsavedSince = {}

Init == HostInit /\ LayoutIdle /\ SimIdle /\ PersistIdle

Next == HostNext /\ UNCHANGED <<layoutVars, simVars, persistVars>>

Spec == Init /\ [][Next]_vars

---------------------------------------------------------------------------
(* computeLayout as a function of its arguments: the arguments are drawn   *)
(* at the start and the call is the only step.                             *)

\* Longest edge list drawn.
MaxEdges == 3

LayoutNodeIds == <<"n1", "n2", "n3", "n4">>

\* the position.y of the drawn nodes, in list order
LayoutNodeY == [n1 |-> 40, n2 |-> 16, n3 |-> 16, n4 |-> 0]

LayoutNode(id) ==
    [id |-> id, position |-> Pos(0, LayoutNodeY[id]), locked |-> FALSE, tags |-> <<>>,
     kind |-> "note", createdAt |-> 1, frameId |-> "none"]

LayoutNodes == [i \in 1..Len(LayoutNodeIds) |-> LayoutNode(LayoutNodeIds[i])]

\* a directional edge between any two nodes, self-loops included, two edges
\* of a type that is not directional, and two directional edges with an end
\* that is no node
DrawnEdges ==
    [sourceId : NodeIdsOf(LayoutNodes), targetId : NodeIdsOf(LayoutNodes), type : {"causes"}]
        \cup {[sourceId |-> "n1", targetId |-> "n2", type |-> "relates"],
              [sourceId |-> "n4", targetId |-> "n1", type |-> "relates"],
              [sourceId |-> "zz", targetId |-> "n1", type |-> "causes"],
              [sourceId |-> "n2", targetId |-> "zz", type |-> "causes"]}

EdgeLists == UNION {[1..k -> DrawnEdges] : k \in 0..MaxEdges}

\* nodes that differ in tags, kind and createdAt
AttributeNodes ==
    <<[id |-> "n1", position |-> Pos(0, 8), locked |-> FALSE, tags |-> <<"x">>,
       kind |-> "note", createdAt |-> 3, frameId |-> "none"],
      [id |-> "n2", position |-> Pos(0, 0), locked |-> FALSE, tags |-> <<>>,
       kind |-> "task", createdAt |-> 1, frameId |-> "none"],
      [id |-> "n3", position |-> Pos(0, 16), locked |-> FALSE, tags |-> <<"alpha", "x">>,
       kind |-> "idea", createdAt |-> 2, frameId |-> "none"],
      [id |-> "n4", position |-> Pos(0, 16), locked |-> FALSE, tags |-> <<"untagged">>,
       kind |-> "note", createdAt |-> 1, frameId |-> "none"]>>

\* two nodes of the same first tag and the same position.y, and one without tags
TaggedNodes ==
    <<[id |-> "n1", position |-> Pos(0, 16), locked |-> FALSE, tags |-> <<"x">>,
       kind |-> "task", createdAt |-> 2, frameId |-> "none"],
      [id |-> "n2", position |-> Pos(0, 16), locked |-> FALSE, tags |-> <<"x", "alpha">>,
       kind |-> "task", createdAt |-> 2, frameId |-> "none"],
      [id |-> "n3", position |-> Pos(0, 0), locked |-> FALSE, tags |-> <<>>,
       kind |-> "tag", createdAt |-> 1, frameId |-> "none"]>>

NodeLists == {<<>>, LayoutNodes, AttributeNodes, TaggedNodes}

\* the five modes of LayoutMode and a value that is none of them
DrawnModes == LayoutModes \cup {"radial"}

FewEdgeLists ==
    {<<>>,
     <<[sourceId |-> "n1", targetId |-> "n2", type |-> "causes"],
       [sourceId |-> "n2", targetId |-> "n3", type |-> "causes"],
       [sourceId |-> "n1", targetId |-> "n3", type |-> "relates"]>>,
     <<[sourceId |-> "zz", targetId |-> "n1", type |-> "causes"],
       [sourceId |-> "n2", targetId |-> "zz", type |-> "causes"]>>,
     <<[sourceId |-> "n1", targetId |-> "n2", type |-> "causes"],
       [sourceId |-> "n2", targetId |-> "n1", type |-> "contrasts"],
       [sourceId |-> "n3", targetId |-> "n1", type |-> "links"],
       [sourceId |-> "n2", targetId |-> "n3", type |-> "supports"]>>}

\* positive integer options, among them the values of DEFAULT_LAYOUT_OPTIONS,
\* and the record that leaves all but gridSize to the defaults
DrawnOptions ==
    [gridSize : {1, 7, 8, 10}, columnSpacing : {1, 25, 240}, rowSpacing : {3, 160},
     margin : {5, 120}, maxPerColumn : {2, 8}]
        \cup {[gridSize |-> 8]}

\* a call on a drawn graph
GraphDraw ==
    /\ lyMode = "flowGrid"
    /\ lyNodes = LayoutNodes
    /\ lyEdges \in EdgeLists
    /\ lyOptions = [gridSize |-> 8]

\* a call with drawn mode, node list and options
OptionDraw ==
    /\ lyMode \in DrawnModes
    /\ lyNodes \in NodeLists
    /\ lyEdges \in FewEdgeLists
    /\ lyOptions \in DrawnOptions

LayoutInit ==
    /\ GraphDraw \/ OptionDraw
    /\ lyResult = EmptyLayout
    /\ lyDone = FALSE

ComputeLayoutCall ==
    /\ ~lyDone
    /\ lyResult' = computeLayout(lyMode, lyNodes, lyEdges, lyOptions)
    /\ lyDone' = TRUE
    /\ UNCHANGED <<lyMode, lyNodes, lyEdges, lyOptions>>

HostIdle == HostInit /\ ~nodes.b.locked

InitLayout == HostIdle /\ LayoutInit /\ SimIdle /\ PersistIdle

NextLayout == ComputeLayoutCall /\ UNCHANGED <<hostVars, simVars, persistVars>>

SpecLayout == InitLayout /\ [][NextLayout]_vars

---------------------------------------------------------------------------
(* syncPhysicsTargets as a function of its arguments.                      *)

SimIds == {"a", "b"}

\* positions, on the grid of 8 and off it, one of them negative, one of them
\* 0.4 pixels beside a grid point
SimPositions == {Pos(8 * Scale, 16 * Scale), Pos(150 * Scale, 150 * Scale),
                 Pos(-4 * Scale, 12 * Scale), Pos(8 * Scale + 40, 16 * Scale)}

SimVelocities == {createZeroVector, Pos(150, -30)}

SimEntries == [position : SimPositions, velocity : SimVelocities,
               target : {Pos(8 * Scale, 16 * Scale), Pos(150 * Scale, 150 * Scale)}]

SimStates == UNION {[ids -> SimEntries] : ids \in SUBSET SimIds}

SimLayouts == UNION {[ids -> SimPositions] : ids \in SUBSET SimIds}

SyncInit ==
    /\ simState \in SimStates
    /\ simBefore = simState
    /\ simLayout \in SimLayouts
    /\ simNodes = <<>>
    /\ simConstraints = DEFAULT_PHYSICS
    /\ simReturned = FALSE
    /\ simCalls = 0

SyncCall ==
    /\ simCalls = 0
    /\ simBefore' = simState
    /\ simState' = syncPhysicsTargets(simState, simLayout, simConstraints.gridSnap)
    /\ simCalls' = 1
    /\ UNCHANGED <<simNodes, simConstraints, simLayout, simReturned>>

InitSync == HostIdle /\ LayoutIdle /\ SyncInit /\ PersistIdle

NextSync == SyncCall /\ UNCHANGED <<hostVars, layoutVars, persistVars>>

SpecSync == InitSync /\ [][NextSync]_vars

\* C12: after syncPhysicsTargets every id of the layout has the snapped layout
\* position as its target, and an id that had no entry has an entry with
\* position = target and zero velocity.
C12_SyncSetsSnappedTargets ==
    simCalls = 1 =>
        \A n \in DOMAIN simLayout :
            /\ n \in DOMAIN simState
            /\ simState[n].target = snapPosition(simLayout[n], simConstraints.gridSnap)
            /\ n \notin DOMAIN simBefore
                   => /\ simState[n].position = simState[n].target
                      /\ simState[n].velocity = createZeroVector

\* the call gave b, which had no entry, an entry on the snap of an off-grid
\* layout position, and re-aimed a, which had one
C12_SyncedNewAndExisting ==
    /\ simCalls = 1
    /\ "b" \in DOMAIN simLayout /\ "b" \notin DOMAIN simBefore
    /\ simLayout["b"] = Pos(150 * Scale, 150 * Scale)
    /\ simState["b"].position = Pos(152 * Scale, 152 * Scale)
    /\ "a" \in DOMAIN simLayout /\ "a" \in DOMAIN simBefore
    /\ simState["a"].target # simBefore["a"].target

---------------------------------------------------------------------------
(* stepPhysics called tick after tick on a state nothing else touches.     *)

\* Calls made in a run of ticks.
MaxSettleCalls == 205

SettleTarget == Pos(144 * Scale, 144 * Scale)

\* where the node starts, relative to its target: within maxOffset of it
SettleOffsets == {Pos(0, 0), Pos(32 * Scale, 0), Pos(-10 * Scale, 20 * Scale),
                  Pos(5 * Scale, -3 * Scale)}

\* the stepped node, outside any frame or inside the frame f
SettleNode(frameId) ==
    [id |-> "a", position |-> SettleTarget, locked |-> FALSE, tags |-> <<>>,
     kind |-> "note", createdAt |-> 1, frameId |-> frameId]

SettleInit ==
    /\ \E frameId \in {"none", "f"} : simNodes = <<SettleNode(frameId)>>
    /\ \E offset \in SettleOffsets :
           simState = SetEntry(EmptyState, "a",
                               [position |-> Pos(SettleTarget.x + offset.x,
                                                 SettleTarget.y + offset.y),
                                velocity |-> createZeroVector,
                                target |-> SettleTarget])
    /\ simBefore = simState
    /\ simConstraints = DEFAULT_PHYSICS
    /\ simLayout = [n \in {} |-> Pos(0, 0)]
    /\ simReturned = FALSE
    /\ simCalls = 0

\* one stepPhysics call, no drag in progress
StepCall(deltaMs) ==
    /\ LET r == stepPhysics(simState, simNodes, simConstraints, deltaMs, {}, Frames)
       IN  /\ simState' = r.state
           /\ simReturned' = r.hasMovement
    /\ simBefore' = simState
    /\ simCalls' = simCalls + 1
    /\ UNCHANGED <<simNodes, simConstraints, simLayout>>

SettleTick == simCalls < MaxSettleCalls /\ StepCall(16)

InitSettle == HostIdle /\ LayoutIdle /\ SettleInit /\ PersistIdle

NextSettle == SettleTick /\ UNCHANGED <<hostVars, layoutVars, persistVars>>

SpecSettle == InitSettle /\ [][NextSettle]_vars

\* every entry is on its target at rest
AtRest(state) ==
    \A n \in DOMAIN state :
        state[n].position = state[n].target /\ state[n].velocity = createZeroVector

\* C15: with the default constraints and 16 ms ticks, a non-locked node that
\* starts within maxOffset of a target nothing changes is on the target with
\* zero velocity, and the call returns false, from the 200th tick at the latest,
\* and from then on it stays so.
C15_SettlesWithin200Ticks ==
    [][SettleTick =>
           ((simCalls' >= 200 \/ (simCalls >= 1 /\ AtRest(simState) /\ simReturned = FALSE))
                => (AtRest(simState') /\ simReturned' = FALSE))]_vars

---------------------------------------------------------------------------
(* computeLayout and stepPhysics called with a node list of length zero.   *)

EmptyInit ==
    /\ lyMode \in DrawnModes
    /\ lyNodes = <<>>
    /\ lyEdges \in FewEdgeLists
    /\ lyOptions = [gridSize |-> 8]
    /\ lyResult = EmptyLayout
    /\ lyDone = FALSE
    /\ simState \in SimStates
    /\ simBefore = simState
    /\ simNodes = <<>>
    /\ simConstraints \in {DEFAULT_PHYSICS, PRESET_STATIC, PRESET_TACTILE, PRESET_STORM}
    /\ simLayout = [n \in {} |-> Pos(0, 0)]
    /\ simReturned = FALSE
    /\ simCalls = 0

EmptyLayoutCall == ComputeLayoutCall /\ UNCHANGED <<hostVars, simVars, persistVars>>

EmptyStepCall ==
    simCalls = 0 /\ StepCall(16) /\ UNCHANGED <<hostVars, layoutVars, persistVars>>

InitEmpty == HostIdle /\ EmptyInit /\ PersistIdle

NextEmpty == EmptyLayoutCall \/ EmptyStepCall

SpecEmpty == InitEmpty /\ [][NextEmpty]_vars

\* C16: with a node list of length zero computeLayout returns empty positions,
\* groups and layers in every mode, whatever the edges, and stepPhysics
\* returns false and leaves the state as it was, whatever the constraints.
C16_EmptyInputIsNoOp ==
    /\ lyDone => lyResult = EmptyLayout
    /\ simCalls = 1 => (simReturned = FALSE /\ simState = simBefore)

\* both calls were made: computeLayout in byTags mode with edges, stepPhysics
\* with physics disabled on a state whose entry of a is away from its target
C16_BothCalledOnEmptyList ==
    /\ lyDone /\ lyMode = "byTags" /\ Len(lyEdges) > 0 /\ Len(lyNodes) = 0
    /\ simCalls = 1 /\ Len(simNodes) = 0 /\ ~simConstraints.enablePhysics
    /\ "a" \in DOMAIN simState
    /\ simState["a"].position # snapPosition(simState["a"].target, simConstraints.gridSnap)
    /\ simState["a"].velocity # createZeroVector

---------------------------------------------------------------------------
(* Properties of the simulation in the host.                               *)

Tick == \E deltaMs \in DeltaValues : StepAnimation(deltaMs)

\* the rounding allowance of the offset bound: 0.02 pixels
OffsetEpsilon == Scale \div 50

OffsetSq(entry) == NormSq(entry.position.x - entry.target.x, entry.position.y - entry.target.y)

Simulated(node) == ~node.locked /\ node.id \notin draggingIds

OnGrid(position, gridSnap) == position.x % gridSnap = 0 /\ position.y % gridSnap = 0

C3_TargetPinnedToDragPoint ==
    \A n \in draggingIds \cap DOMAIN dragPoint \cap DOMAIN physicsState :
        \/ physicsState[n].target = dragPoint[n]
        \/ physicsState[n].target = snapPosition(dragPoint[n], physicsConstraints.gridSnap)

\* C4: a dragged node whose position and target are both the point P has
\* position P after the stepPhysics call, on the grid or off it.
C4_DraggedStaysAtPoint ==
    [][Tick => \A n \in draggingIds \cap DOMAIN physicsState :
                   physicsState[n].position = physicsState[n].target
                       => physicsState'[n].position = physicsState[n].position]_vars

\* C5: at pointer up after a last move to P, the position committed to the
\* node record and the entry's position and target are snapPosition(P, gridSnap).
C5_ReleaseCommitsSnappedPoint ==
    [][\A n \in DOMAIN dragPoint \cap DOMAIN physicsState :
           PointerUp(n) =>
               LET snapped == snapPosition(dragPoint[n], physicsConstraints.gridSnap)
               IN  /\ nodes'[n].position = snapped
                   /\ physicsState'[n].position = snapped
                   /\ physicsState'[n].target = snapped]_vars

\* C6: in every reachable state every entry's target has both coordinates a
\* multiple of the grid-snap size.
C6_TargetsOnGrid ==
    \A n \in DOMAIN physicsState : OnGrid(physicsState[n].target, physicsConstraints.gridSnap)

\* C7: after every stepPhysics call each locked node of the list has
\* position = target and zero velocity, with physics enabled or disabled.
C7_LockedAtTarget ==
    [][Tick => \A i \in 1..Len(visibleNodes) :
                   visibleNodes[i].locked =>
                       /\ physicsState'[visibleNodes[i].id].position
                              = physicsState'[visibleNodes[i].id].target
                       /\ physicsState'[visibleNodes[i].id].velocity = createZeroVector]_vars

\* C8: with physics disabled, after a stepPhysics call every entry has
\* position = target and zero velocity, the call returns false, and a second
\* call changes nothing.
C8_FreezeIdempotent ==
    [][(Tick /\ ~physicsConstraints.enablePhysics) =>
           /\ \A n \in DOMAIN physicsState' :
                  /\ physicsState'[n].position = physicsState'[n].target
                  /\ physicsState'[n].velocity = createZeroVector
           /\ hasMovement' = FALSE
           /\ \A deltaMs \in DeltaValues :
                  stepPhysics(physicsState', visibleNodes, physicsConstraints, deltaMs,
                              draggingIds, Frames).state = physicsState']_vars

\* C9: after a stepPhysics call whose node list no longer has an id that an
\* earlier call stepped, the state holds no entry for that id.
C9_EntryRemovedWithNode ==
    [][Tick => \A n \in steppedIds \ NodeIdsOf(visibleNodes) :
                   n \notin DOMAIN physicsState']_vars

\* C10: syncPhysicsTargets changes no position and no velocity of an existing
\* entry, and changes nothing of an entry whose id the layout does not have.
C10_SyncKeepsPositionAndVelocity ==
    [][SyncEffect => \A n \in DOMAIN physicsState :
                         /\ n \in DOMAIN physicsState'
                         /\ physicsState'[n].position = physicsState[n].position
                         /\ physicsState'[n].velocity = physicsState[n].velocity
                         /\ n \notin DOMAIN layout.positions
                                => physicsState'[n] = physicsState[n]]_vars

\* node a was deleted and the view re-rendered: the sync left a's entry as it
\* was, and gave b the first column as its target while b stayed where it was
C10_SyncedAfterDelete ==
    /\ pc = "idle" /\ events = 1 /\ ticks = 0
    /\ "a" \notin DOMAIN nodes /\ "a" \in DOMAIN physicsState
    /\ "a" \notin DOMAIN layout.positions
    /\ "b" \in DOMAIN physicsState
    /\ physicsState["b"].target = layout.positions["b"]
    /\ physicsState["b"].target = Pos(144 * Scale, 144 * Scale)
    /\ physicsState["b"].position = snapPosition(InitialPositions["b"], physicsConstraints.gridSnap)

\* C11: when a sync has moved the target of a simulated node farther than
\* maxOffset from its position, the next stepPhysics call moves the position by
\* the velocity * dt of that tick and by nothing else.  After the first tick a
\* simulated node is farther than maxOffset from its target only if a sync has
\* moved the target since.
C11_RetargetMovesByVelocityStep ==
    [][\A deltaMs \in DeltaValues :
           (StepAnimation(deltaMs) /\ ticks >= 1) =>
               \A i \in 1..Len(visibleNodes) :
                   LET id == visibleNodes[i].id
                   IN  (/\ Simulated(visibleNodes[i])
                        /\ id \in DOMAIN physicsState
                        /\ OffsetSq(physicsState[id])
                               > (physicsConstraints.maxOffset + OffsetEpsilon)
                                     * (physicsConstraints.maxOffset + OffsetEpsilon))
                           => /\ physicsState'[id].position.x
                                     = physicsState[id].position.x
                                           + TimesDt(physicsState'[id].velocity.x, deltaMs)
                              /\ physicsState'[id].position.y
                                     = physicsState[id].position.y
                                           + TimesDt(physicsState'[id].velocity.y, deltaMs)]_vars

\* the step gives the entry of n the snapped layout position of n as a target
\* it did not have before
LayoutReachesTarget(n) ==
    /\ n \in DOMAIN physicsState'
    /\ n \in DOMAIN layout.positions
    /\ physicsState'[n].target
           = snapPosition(layout.positions[n], physicsConstraints.gridSnap)
    /\ n \in DOMAIN physicsState => physicsState[n].target # physicsState'[n].target

\* C13: a computeLayout position reaches the target of a simulation entry
\* through syncPhysicsTargets only: every step of the host that writes one is
\* the syncPhysicsTargets effect.
C13_OnlySyncWritesLayoutTargets ==
    [][(\E n \in {"a", "b"} : LayoutReachesTarget(n)) => SyncEffect]_vars

---------------------------------------------------------------------------
(* Properties of the layout.                                               *)

IsDirectional(edge) == edge.type \in DIRECTIONAL_EDGE_TYPES

Successors(edgeList, S) ==
    {edgeList[i].targetId : i \in {j \in 1..Len(edgeList) :
                                      IsDirectional(edgeList[j]) /\ edgeList[j].sourceId \in S}}

RECURSIVE Descendants(_, _)
Descendants(edgeList, S) ==
    LET grown == S \cup Successors(edgeList, S)
    IN  IF grown = S THEN S ELSE Descendants(edgeList, grown)

\* both ends of the edge are nodes of the list
BetweenNodes(edge, nodeList) ==
    edge.sourceId \in NodeIdsOf(nodeList) /\ edge.targetId \in NodeIdsOf(nodeList)

\* a directional cycle passes through id
OnDirectionalCycle(edgeList, id) ==
    id \in Descendants(edgeList, Successors(edgeList, {id}))

\* C2: after computeLayout in flowGrid or byCausality mode, every directional
\* edge A->B whose source lies on no directional cycle has
\* layer(B) >= layer(A) + 1, whatever the shape of the graph.  The graphs are
\* those whose edges all join nodes of the list.
C2_LayeringCorrect ==
    (/\ lyDone /\ lyMode \in {"flowGrid", "byCausality"}
     /\ \A j \in 1..Len(lyEdges) : BetweenNodes(lyEdges[j], lyNodes)) =>
        \A i \in 1..Len(lyEdges) :
            (/\ IsDirectional(lyEdges[i])
             /\ ~OnDirectionalCycle(lyEdges, lyEdges[i].sourceId))
                => lyResult.layers[lyEdges[i].targetId]
                       >= lyResult.layers[lyEdges[i].sourceId] + 1

\* C14: in every mode and for every positive integer grid size, spacing and
\* margin, every coordinate of the positions computeLayout returns is a
\* multiple of options.gridSize.
C14_PositionsOnGrid ==
    lyDone =>
        \A n \in DOMAIN lyResult.positions :
            OnGrid(lyResult.positions[n], ensureOptions(lyOptions).gridSize)

\* a byTime call with grid size 7, which divides neither margin nor spacing,
\* has placed the four nodes in two columns
C14_PlacedOnGridOfSeven ==
    /\ lyDone /\ lyMode = "byTime"
    /\ lyOptions = [gridSize |-> 7, columnSpacing |-> 25, rowSpacing |-> 3, margin |-> 5,
                    maxPerColumn |-> 2]
    /\ DOMAIN lyResult.positions = {"n1", "n2", "n3", "n4"}
    /\ \E n \in DOMAIN lyResult.positions : lyResult.positions[n] = Pos(28, 7)

\* the edges of edgeList that join two nodes of nodeList
KnownEdges(edgeList, nodeList) ==
    SelectSeq(edgeList, LAMBDA edge : BetweenNodes(edge, nodeList))

\* C17: computeLayout in flowGrid or byCausality mode skips every edge whose
\* source id or target id is not among the given nodes: what it returns
\* equals what it returns with such edges removed, and the layers map has no
\* key outside the node ids.
C17_UnknownEdgesSkipped ==
    (lyDone /\ lyMode \in {"flowGrid", "byCausality"}) =>
        /\ lyResult = computeLayout(lyMode, lyNodes,
                                    KnownEdges(lyEdges, lyNodes), lyOptions)
        /\ DOMAIN lyResult.layers \subseteq NodeIdsOf(lyNodes)

\* the modes that take the flow layout: the two named ones and a value
\* outside the five known modes
FlowModes == {"byCausality", "flowGrid", "radial"}

\* C18: for the same nodes, edges and options, computeLayout returns the same
\* positions, groups and layers for mode byCausality, for mode flowGrid and
\* for a mode value outside the five known modes.
C18_FlowModesAgree ==
    (lyDone /\ lyMode \in FlowModes) =>
        \A mode \in FlowModes :
            lyResult = computeLayout(mode, lyNodes, lyEdges, lyOptions)

\* a call with an unknown mode on a graph with directional edges returned a
\* layout of more than one layer, which no other mode's function returns
C18_UnknownModeLaidOutAsFlow ==
    /\ lyDone /\ lyMode = "radial"
    /\ Len(lyNodes) > 0 /\ Len(lyEdges) > 0
    /\ \E id \in DOMAIN lyResult.layers : lyResult.layers[id] > 0
    /\ \A mode \in LayoutModes \ FlowModes :
           lyResult # computeLayout(mode, lyNodes, lyEdges, lyOptions)

---------------------------------------------------------------------------
(* The auto-save of usePersistence: createAutoSave(getState, 5000) and the  *)
(* store listener that calls scheduleSave.  A timer fires at its deadline.  *)

\* the interval usePersistence passes to createAutoSave, in milliseconds
interval == 5000

\* how far the clock moves in one step, the last instant looked at, and the
\* number of store changes
TimeStep == 1000
MaxTime == 12000
MaxChanges == 4

SetMin(S) == CHOOSE t \in S : \A u \in S : t <= u

\* save(): reads the store as it is now
save ==
    /\ savedChanges' = storeChanges
    /\ saves' = saves + 1
    /\ unsavedSince' = {}

\* scheduleSave(): clears the timer of the handle, then sets a new one
scheduleSave ==
    /\ pendingTimers' = (pendingTimers \ saveTimeout) \cup {clock + interval}
    /\ saveTimeout' = {clock + interval}

\* the store changes and the subscribed listener runs
StoreChange ==
    /\ subscribed
    /\ storeChanges < MaxChanges
    /\ storeChanges' = storeChanges + 1
    /\ scheduleSave
    /\ unsavedSince' = IF unsavedSince = {} THEN {clock} ELSE unsavedSince
    /\ UNCHANGED <<clock, subscribed, savedChanges, saves>>

\* a timer set by scheduleSave reaches its deadline: save runs; the handle
\* stays in saveTimeout
TimerFires ==
    /\ \E t \in pendingTimers :
           /\ t <= clock
           /\ pendingTimers' = pendingTimers \ {t}
    /\ save
    /\ UNCHANGED <<clock, saveTimeout, subscribed, storeChanges>>

\* time passes, up to the next deadline
Advance ==
    /\ clock < MaxTime
    /\ \A t \in pendingTimers : t > clock
    /\ clock' = IF pendingTimers # {} /\ SetMin(pendingTimers) < clock + TimeStep
                THEN SetMin(pendingTimers)
                ELSE clock + TimeStep
    /\ UNCHANGED <<saveTimeout, pendingTimers, subscribed, storeChanges,
                   savedChanges, saves, unsavedSince>>

\* the cleanup of the effect: unsubscribe(), then saveNow()
Unmount ==
    /\ subscribed
    /\ subscribed' = FALSE
    /\ pendingTimers' = pendingTimers \ saveTimeout
    /\ save
    /\ UNCHANGED <<clock, saveTimeout, storeChanges>>

InitPersist == HostIdle /\ LayoutIdle /\ SimIdle /\ PersistIdle

NextPersist ==
    /\ StoreChange \/ TimerFires \/ Advance \/ Unmount
    /\ UNCHANGED <<hostVars, layoutVars, simVars>>

SpecPersist == InitPersist /\ [][NextPersist]_vars

\* C19: auto-save runs every 5 seconds: once the store has changed, a save
\* fires within 5 seconds of that change, even when further store changes
\* keep arriving during the wait.
C19_SaveWithinInterval ==
    \A t \in unsavedSince : clock - t <= interval

\* the directional predecessors of id
Predecessors(edgeList, id) ==
    {edgeList[i].sourceId : i \in {j \in 1..Len(edgeList) :
        IsDirectional(edgeList[j]) /\ edgeList[j].targetId = id}}

SetMax(S) == CHOOSE t \in S : \A u \in S : t >= u

\* the length of the longest directional path ending at id, in an acyclic graph
RECURSIVE LongestPathTo(_, _)
LongestPathTo(edgeList, id) ==
    IF Predecessors(edgeList, id) = {} THEN 0
    ELSE 1 + SetMax({LongestPathTo(edgeList, p) : p \in Predecessors(edgeList, id)})

\* C20: for an acyclic directional subgraph whose edge endpoints are all among
\* the nodes, the flow layering gives every node layer 0 if it has no
\* directional predecessor and otherwise 1 + the maximum layer over its
\* directional predecessors, in every order of the edges.
C20_LayerIsLongestPath ==
    (/\ lyDone /\ lyMode \in FlowModes
     /\ \A j \in 1..Len(lyEdges) : BetweenNodes(lyEdges[j], lyNodes)
     /\ \A id \in NodeIdsOf(lyNodes) : ~OnDirectionalCycle(lyEdges, id)) =>
        \A id \in NodeIdsOf(lyNodes) :
            lyResult.layers[id] = LongestPathTo(lyEdges, id)

\* the ids of nodeList that are the target of no directional edge: the seeds
ZeroIndegree(edgeList, nodeList) ==
    {id \in NodeIdsOf(nodeList) :
        \A i \in 1..Len(edgeList) :
            IsDirectional(edgeList[i]) => edgeList[i].targetId # id}

\* the ids reached from a seed along directional edges that leave a node
SeedReach(edgeList, nodeList) ==
    LET fromNodes == SelectSeq(edgeList,
                         LAMBDA edge : edge.sourceId \in NodeIdsOf(nodeList))
        seeds == ZeroIndegree(edgeList, nodeList)
    IN  seeds \cup Descendants(fromNodes, seeds)

\* id is an end of no directional edge
Unconnected(edgeList, id) ==
    \A i \in 1..Len(edgeList) :
        IsDirectional(edgeList[i]) =>
            edgeList[i].sourceId # id /\ edgeList[i].targetId # id

\* C21: for any nodes and edges, directional cycles, self-loops and duplicate
\* edges included, the flow layering ends and gives every node a non-negative
\* integer layer; a node with no directional edge, and every node not
\* reachable from a zero-indegree seed, gets layer 0.
C21_EveryNodeLayered ==
    (lyDone /\ lyMode \in FlowModes) =>
        \A id \in NodeIdsOf(lyNodes) :
            /\ id \in DOMAIN lyResult.layers
            /\ lyResult.layers[id] \in Nat
            /\ Unconnected(lyEdges, id) => lyResult.layers[id] = 0
            /\ id \notin SeedReach(lyEdges, lyNodes) => lyResult.layers[id] = 0

\* the call on a list with a duplicate edge and a self-loop has returned: n2
\* is in layer 1, n3 on its cycle and the unconnected n4 are in layer 0
C21_LayeredWithLoopAndDuplicate ==
    /\ lyDone /\ lyMode = "flowGrid"
    /\ lyEdges = <<[sourceId |-> "n1", targetId |-> "n2", type |-> "causes"],
                   [sourceId |-> "n1", targetId |-> "n2", type |-> "causes"],
                   [sourceId |-> "n3", targetId |-> "n3", type |-> "causes"]>>
    /\ "n3" \notin SeedReach(lyEdges, lyNodes)
    /\ Unconnected(lyEdges, "n4")
    /\ lyResult.layers = [n1 |-> 0, n2 |-> 1, n3 |-> 0, n4 |-> 0]

\* the edge kinds that are not directional
NonDirectionalKinds == {"contrasts", "links", "relates"}

WithoutNonDirectional(edgeList) ==
    SelectSeq(edgeList, LAMBDA edge : edge.type \notin NonDirectionalKinds)

\* C22: edges of a non-directional kind (contrasts, links, relates) are
\* layering-inert: computeLayout in flowGrid or byCausality mode returns the
\* positions, groups and layers it returns with all of them removed.
C22_NonDirectionalEdgesInert ==
    (lyDone /\ lyMode \in FlowModes) =>
        lyResult = computeLayout(lyMode, lyNodes,
                                 WithoutNonDirectional(lyEdges), lyOptions)

\* a call whose edges n2 -contrasts-> n1 and n3 -links-> n1 would close a
\* cycle through n1 if they counted: n1 is still the seed of the chain
C22_LaidOutPastWeakLinks ==
    /\ lyDone /\ lyMode = "byCausality" /\ Len(lyNodes) > 0
    /\ \E i \in 1..Len(lyEdges) : lyEdges[i].type = "contrasts"
    /\ \E i \in 1..Len(lyEdges) : lyEdges[i].type = "links"
    /\ lyResult.layers = [n1 |-> 0, n2 |-> 1, n3 |-> 2, n4 |-> 0]

\* the place of id in the sequence ids, counted from 0; the ids are distinct
IndexOf(ids, id) == (CHOOSE i \in 1..Len(ids) : ids[i] = id) - 1

\* C23: in flowGrid or byCausality output every node's x is
\* snapToGrid(margin + L * columnSpacing), L being the node's value in the
\* returned layers map, and its y is snapToGrid(margin + i * rowSpacing), i
\* being its index in the group layer:L.
C23_FlowPositionFromLayer ==
    (lyDone /\ lyMode \in FlowModes) =>
        LET options == ensureOptions(lyOptions)
        IN  \A id \in NodeIdsOf(lyNodes) :
                LET L == lyResult.layers[id]
                    key == [prefix |-> "layer", index |-> L]
                IN  /\ MapHas(lyResult.groups, key)
                    /\ \E i \in 1..Len(MapGet(lyResult.groups, key)) :
                           MapGet(lyResult.groups, key)[i] = id
                    /\ lyResult.positions[id] =
                           Pos(snapToGrid(options.margin + L * options.columnSpacing,
                                          options.gridSize),
                               snapToGrid(options.margin
                                              + IndexOf(MapGet(lyResult.groups, key), id)
                                                    * options.rowSpacing,
                                          options.gridSize))

\* the chain n1 -> n2 -> n3 on a grid of 7 with columns 25 apart: three
\* layers, n3 stands in the third column, n4 and n1 share the first
C23_ChainInThreeColumns ==
    /\ lyDone /\ lyMode = "flowGrid" /\ Len(lyNodes) > 0
    /\ lyOptions = [gridSize |-> 7, columnSpacing |-> 25, rowSpacing |-> 160,
                    margin |-> 5, maxPerColumn |-> 2]
    /\ lyResult.layers = [n1 |-> 0, n2 |-> 1, n3 |-> 2, n4 |-> 0]
    /\ lyResult.positions["n3"].x = snapToGrid(5 + 2 * 25, 7)
    /\ lyResult.positions["n1"].y # lyResult.positions["n4"].y

\* node a stands in a column left of the column of node b: by column index,
\* and by x as far as the grid tells columns apart
LeftOf(a, b) ==
    LET options == ensureOptions(lyOptions)
    IN  /\ lyResult.layers[a.id] < lyResult.layers[b.id]
        /\ lyResult.positions[a.id].x <= lyResult.positions[b.id].x
        /\ options.columnSpacing >= options.gridSize
               => lyResult.positions[a.id].x < lyResult.positions[b.id].x

\* C24: in byTags mode the columns run left to right in alphabetical order of
\* the nodes' first tag, and whenever some node has no tags the column of the
\* nodes without tags has the greatest x of all columns.
C24_TagColumnsAlphabetical ==
    (lyDone /\ lyMode = "byTags") =>
        \A i, j \in 1..Len(lyNodes) :
            LET a == lyNodes[i]
                b == lyNodes[j]
            IN  /\ (/\ ~HasNoTags(a) /\ ~HasNoTags(b)
                    /\ TagRank(a.tags[1]) < TagRank(b.tags[1])) => LeftOf(a, b)
                /\ (~HasNoTags(a) /\ HasNoTags(b)) => LeftOf(a, b)

\* tag sets [x], [x, alpha], []: the two nodes of tag x share the first
\* column, the node without tags stands in the second
C24_UntaggedColumnLast ==
    /\ lyDone /\ lyMode = "byTags" /\ lyNodes = TaggedNodes
    /\ lyOptions = [gridSize |-> 8]
    /\ lyResult.positions["n1"].x = lyResult.positions["n2"].x
    /\ lyResult.positions["n3"].x > lyResult.positions["n1"].x
    /\ lyResult.layers["n3"] = 1

\* C25: in byTags mode each key of the returned groups map is exactly one
\* column: the ids listed under one key have the same x and the same layer
\* index, and two different keys have different x (as far as the grid tells
\* columns apart); for every tag set, a first tag 'untagged' included.
C25_TagGroupIsOneColumn ==
    (lyDone /\ lyMode = "byTags") =>
        LET options == ensureOptions(lyOptions)
            groups == lyResult.groups
        IN  \A g, h \in 1..Len(groups) :
                \A i \in 1..Len(groups[g].value), j \in 1..Len(groups[h].value) :
                    LET a == groups[g].value[i]
                        b == groups[h].value[j]
                    IN  /\ g = h => /\ lyResult.positions[a].x = lyResult.positions[b].x
                                    /\ lyResult.layers[a] = lyResult.layers[b]
                        /\ (g # h /\ options.columnSpacing >= options.gridSize)
                               => lyResult.positions[a].x # lyResult.positions[b].x

\* the place of kind in the order note, idea, task, tag
KindRank(kind) == IndexOf(ORDERED_NODE_KINDS, kind)

\* the number of kinds present in nodeList that come before kind
KindsBefore(nodeList, kind) ==
    Cardinality({nodeList[i].kind : i \in 1..Len(nodeList)}
                    \cap {other \in {ORDERED_NODE_KINDS[r] : r \in 1..Len(ORDERED_NODE_KINDS)} :
                             KindRank(other) < KindRank(kind)})

\* C26: in byTypes mode the columns follow the order note, idea, task, tag
\* with no empty column: the k-th kind present, counted from 0, sits at
\* x = snapToGrid(margin + k * columnSpacing) with layer k, and every input
\* node receives a position.
C26_TypeColumnsInKindOrder ==
    (lyDone /\ lyMode = "byTypes") =>
        LET options == ensureOptions(lyOptions)
        IN  \A i \in 1..Len(lyNodes) :
                LET node == lyNodes[i]
                    k == KindsBefore(lyNodes, node.kind)
                IN  /\ node.id \in DOMAIN lyResult.positions
                    /\ lyResult.layers[node.id] = k
                    /\ lyResult.positions[node.id].x =
                           snapToGrid(options.margin + k * options.columnSpacing,
                                      options.gridSize)

\* kinds task, task, tag: no note and no idea, so the tasks fill column 0 and
\* the tag column 1, at x = 120 + 240
C26_AbsentKindsLeaveNoGap ==
    /\ lyDone /\ lyMode = "byTypes" /\ lyNodes = TaggedNodes
    /\ lyOptions = [gridSize |-> 8]
    /\ lyResult.layers = [n1 |-> 0, n2 |-> 0, n3 |-> 1]
    /\ lyResult.positions["n3"].x = 360

\* the rank of the i-th node of nodeList in ascending createdAt order, equal
\* timestamps in input order, counted from 0
TimeRank(nodeList, i) ==
    Cardinality({j \in 1..Len(nodeList) :
        \/ nodeList[j].createdAt < nodeList[i].createdAt
        \/ nodeList[j].createdAt = nodeList[i].createdAt /\ j < i})

\* nodeList with every position.y set to 0
Levelled(nodeList) ==
    [i \in 1..Len(nodeList) |-> [nodeList[i] EXCEPT !.position.y = 0]]

\* the nodes of nodeList that the result puts in column c
InColumn(nodeList, c) ==
    {i \in 1..Len(nodeList) : lyResult.layers[nodeList[i].id] = c}

\* C27: in byTime mode the node at rank i in ascending createdAt order (equal
\* timestamps kept in input order) is placed at column floor(i / maxPerColumn)
\* and row i mod maxPerColumn, so no column holds more than maxPerColumn
\* nodes, every column before the last is full, and a node's current y never
\* affects its slot.
C27_TimeSlotsByRank ==
    (lyDone /\ lyMode = "byTime") =>
        LET options == ensureOptions(lyOptions)
            perColumn == options.maxPerColumn
            lastColumn == (Len(lyNodes) - 1) \div perColumn
        IN  /\ \A i \in 1..Len(lyNodes) :
                   LET id == lyNodes[i].id
                       column == TimeRank(lyNodes, i) \div perColumn
                       row == TimeRank(lyNodes, i) % perColumn
                       key == [prefix |-> "time", index |-> column]
                   IN  /\ lyResult.layers[id] = column
                       /\ lyResult.positions[id] =
                              Pos(snapToGrid(options.margin + column * options.columnSpacing,
                                             options.gridSize),
                                  snapToGrid(options.margin + row * options.rowSpacing,
                                             options.gridSize))
                       /\ MapHas(lyResult.groups, key)
                       /\ Len(MapGet(lyResult.groups, key)) > row
                       /\ MapGet(lyResult.groups, key)[row + 1] = id
            /\ \A c \in 0..lastColumn :
                   /\ Cardinality(InColumn(lyNodes, c)) <= perColumn
                   /\ c < lastColumn => Cardinality(InColumn(lyNodes, c)) = perColumn
            /\ lyResult = computeLayout(lyMode, Levelled(lyNodes), lyEdges, lyOptions)

\* createdAt 3, 1, 2, 1 with two nodes per column: n2 and n4, both of time 1,
\* fill the first column in input order; n3 and n1 fill the second, n3 first
\* although n1 lies above it
C27_PackedByCreationTime ==
    /\ lyDone /\ lyMode = "byTime" /\ lyNodes = AttributeNodes
    /\ "maxPerColumn" \in DOMAIN lyOptions /\ lyOptions.maxPerColumn = 2
    /\ lyResult.layers = [n2 |-> 0, n4 |-> 0, n3 |-> 1, n1 |-> 1]
    /\ lyResult.positions["n2"].y < lyResult.positions["n4"].y
    /\ lyResult.positions["n3"].y < lyResult.positions["n1"].y

\* the i-th node of nodeList comes before the j-th in row order: ascending
\* position.y, equal position.y in input order
RowBefore(nodeList, i, j) ==
    \/ nodeList[i].position.y < nodeList[j].position.y
    \/ nodeList[i].position.y = nodeList[j].position.y /\ i < j

\* id comes before other in some entry of groups
ListedBefore(groups, id, other) ==
    \E g \in 1..Len(groups) :
        \E p, q \in 1..Len(groups[g].value) :
            p < q /\ groups[g].value[p] = id /\ groups[g].value[q] = other

\* C28: in flowGrid, byCausality, byTags and byTypes output the rows inside
\* one column follow the nodes' current position.y in ascending order, nodes
\* with equal position.y keep their order from the input list, and the order
\* of the ids in each groups entry is that same row order.
C28_RowsByCurrentY ==
    (lyDone /\ lyMode \in {"flowGrid", "byCausality", "byTags", "byTypes"}) =>
        LET options == ensureOptions(lyOptions)
        IN  \A i, j \in 1..Len(lyNodes) :
                LET a == lyNodes[i].id
                    b == lyNodes[j].id
                IN  /\ (/\ lyResult.layers[a] = lyResult.layers[b]
                        /\ RowBefore(lyNodes, i, j)) =>
                           /\ lyResult.positions[a].y <= lyResult.positions[b].y
                           /\ options.rowSpacing >= options.gridSize
                                  => lyResult.positions[a].y < lyResult.positions[b].y
                           /\ ListedBefore(lyResult.groups, a, b)
                    /\ ListedBefore(lyResult.groups, a, b) => RowBefore(lyNodes, i, j)

---------------------------------------------------------------------------
(* stepPhysics called on node lists that are not empty: states with        *)
(* entries on and off the grid, at rest and moving, and the four sets of   *)
(* constraints.                                                            *)

MaxStepCalls == 2

StepDeltas == {16, 48}

\* a node of the stepped list; an entry that is missing is made from position
StepNode(id, locked) ==
    [id |-> id, position |-> Pos(150 * Scale, 150 * Scale), locked |-> locked,
     tags |-> <<>>, kind |-> "note", createdAt |-> 1, frameId |-> "none"]

StepNodeLists ==
    {<<StepNode("a", FALSE)>>,
     <<StepNode("a", FALSE), StepNode("b", FALSE)>>,
     <<StepNode("a", TRUE), StepNode("b", FALSE)>>}

StepInit ==
    /\ simState \in SimStates
    /\ simBefore = simState
    /\ simNodes \in StepNodeLists
    /\ simConstraints \in {DEFAULT_PHYSICS, PRESET_STATIC, PRESET_TACTILE, PRESET_STORM}
    /\ simLayout = [n \in {} |-> Pos(0, 0)]
    /\ simReturned = FALSE
    /\ simCalls = 0

StepOnce ==
    /\ simCalls < MaxStepCalls
    /\ \E deltaMs \in StepDeltas : StepCall(deltaMs)

InitStep == HostIdle /\ LayoutIdle /\ StepInit /\ PersistIdle

NextStep == StepOnce /\ UNCHANGED <<hostVars, layoutVars, persistVars>>

SpecStep == InitStep /\ [][NextStep]_vars

\* C29: targets are re-snapped at the top of every tick regardless of prior
\* state: after every stepPhysics call with a node list that is not empty,
\* the target of every node of the list equals snapPosition(its target
\* before the call, gridSnap), for all constraints, physics disabled included.
C29_TargetsResnappedEveryTick ==
    (simCalls >= 1 /\ Len(simNodes) > 0) =>
        \A id \in NodeIdsOf(simNodes) \cap DOMAIN simBefore :
            simState[id].target = snapPosition(simBefore[id].target,
                                               simConstraints.gridSnap)

\* the ids of the nodes of the list that are simulated: not locked
SimulatedIds == {simNodes[i].id : i \in {j \in 1..Len(simNodes) : ~simNodes[j].locked}}

\* C30: with physics enabled and the default constraints, whenever stepPhysics
\* returns false every node of the list that is neither locked nor dragged
\* has position = target and velocity (0,0).
C30_FalseMeansAtRest ==
    (/\ simCalls >= 1 /\ Len(simNodes) > 0
     /\ simConstraints = DEFAULT_PHYSICS /\ simReturned = FALSE) =>
        \A id \in SimulatedIds :
            /\ simState[id].position = simState[id].target
            /\ simState[id].velocity = createZeroVector

\* a call under the default constraints returned false after pulling the
\* simulated node a from where it was onto its target
C30_ReturnedFalseAfterSnap ==
    /\ simCalls >= 1 /\ simConstraints = DEFAULT_PHYSICS /\ simReturned = FALSE
    /\ "a" \in SimulatedIds /\ "a" \in DOMAIN simBefore
    /\ simBefore["a"].position # simState["a"].position
    /\ simState["a"].position = simState["a"].target

====
